---------------------------- MODULE Spec2Model ----------------------------
(***************************************************************************)
(* Model of musiclinter: the directory classifier (musiclinter/directory), *)
(* the cue checker of the package (musiclinter/cue.py) and the cue checker *)
(* of the standalone script (musiclinter.py).                              *)
(*                                                                         *)
(* A file name is a sequence of chunks: the chunk "." is one dot           *)
(* character, every other chunk is a non-empty run of characters that are  *)
(* not dots.  <<"track", ".", "flac">> is the name track.flac and          *)
(* <<"track", "10", ".", "flac">> is track10.flac.  The empty sequence is  *)
(* the empty string.                                                       *)
(***************************************************************************)
EXTENDS Integers, Sequences, FiniteSets, TLC

VARIABLES
    impl,       \* "pkg": musiclinter/cue.py, "script": musiclinter.py
    opts,       \* CueLinter.fix/overwrite/delete (pkg), Processor.fix_cue (script)
    listing,    \* what os.walk enumerates: the directory's file names, in order
    pos,        \* number of names of the listing already classified
    d,          \* the Directory node being built
    disk,       \* the directory on disk: file name -> content
    pc,         \* position of the walk / of the checker
    linter,     \* the checker's counters
    ci,         \* index in d.cue of the index file the checker works on
    cue,        \* the index document in work (Cue object / locals of process_cue_data)
    run,        \* number of the walk over the directory (1, 2, ...)
    hist,       \* observation of the run, for the properties (never read by an action)
    coverlinter, \* the CoverLinter of the node: no_cover, nr_wrong_name (covers.py)
    processor,  \* Processor statistics of the script: nr_no_cover, nr_wrong_cover_name
    tree,       \* the directory tree on disk: directory -> subdirs, readable, listing, disk
    paths,      \* args.paths: the root directories of the run, in order
    pi,         \* index in paths of the root main works on
    state,      \* State.recursive and State.linters (state.py)
    nodes,      \* the Directory objects made so far, by directory
    stack,      \* the running calls of Directory.analyze, innermost last
    wpc,        \* position of main: "idle", "main", "build", "log", "exit", or the
                \* exception that ended it: "StopIteration", "TypeError"
    text,       \* the string year inference is asked about
    guess       \* the results of the calls of guess_year made for text

\* the state outside the classifier and the cue checkers
others == <<coverlinter, processor, tree, paths, pi, state, nodes, stack, wpc,
           text, guess>>

vars == <<impl, opts, listing, pos, d, disk, pc, linter, ci, cue, run, hist, others>>

-----------------------------------------------------------------------------
(* Bounds of the model *)

\* Longest listing the classifier specification enumerates.
MaxListing == 3

\* Most audio files in the directory of the cue specification.
MaxFiles == 2

\* Most FILE statements of an index document.
MaxRefs == 2

\* Number of walks over the same directory (the second one re-reads the disk).
MaxRuns == 2

-----------------------------------------------------------------------------
(* Strings *)

Range(s) == {s[i] : i \in 1..Len(s)}

\* str.lower() on one chunk
LowerChunk(c) ==
    CASE c = "FLAC" -> "flac"
      [] c = "Mp3"  -> "mp3"
      [] c = "XYZ"  -> "xyz"
      [] c = "CUE"  -> "cue"
      [] c = "Front" -> "front"
      [] c = "IFO" -> "ifo"
      [] c = "BUP" -> "bup"
      [] c = "M3U8" -> "m3u8"
      [] c = "Cover" -> "cover"
      [] c = "FOLDER" -> "folder"
      [] c = "JPG" -> "jpg"
      [] OTHER -> c

Lower(s) == [i \in 1..Len(s) |-> LowerChunk(s[i])]

\* str.rfind("."): the position of the last dot, 0 when there is none
LastDot(s) ==
    LET dots == {i \in 1..Len(s) : s[i] = "."}
    IN  IF dots = {} THEN 0 ELSE CHOOSE i \in dots : \A j \in dots : j <= i

\* str.startswith
StartsWith(s, p) == Len(p) <= Len(s) /\ SubSeq(s, 1, Len(p)) = p

\* kstools.files.lowerext: the lower-cased text after the last dot, empty when
\* the name has no dot
lowerext(name) ==
    LET i == LastDot(name)
    IN  IF i = 0 THEN <<>> ELSE Lower(SubSeq(name, i + 1, Len(name)))

-----------------------------------------------------------------------------
(* musiclinter/directory.py: the extension tables *)

LOSSLESS == {<<"alac">>, <<"ape">>, <<"flac">>, <<"wav">>, <<"wv">>}

COMPRESSED == {<<"aac">>, <<"m4a">>, <<"mp3">>, <<"ogg">>, <<"opus">>, <<"wma">>}

IMAGES == {<<"bmp">>, <<"gif">>, <<"jpeg">>, <<"jpg">>, <<"png">>, <<"tiff">>}

VIDEOS ==
    {<<"avi">>, <<"asf">>, <<"flv">>, <<"m1v">>, <<"m2v">>, <<"m4v">>, <<"mkv">>,
     <<"mov">>, <<"mp4">>, <<"mpeg">>, <<"mpg">>, <<"ts">>, <<"vob">>, <<"webm">>,
     <<"wmv">>}

PLAYLIST == {<<"m3u">>, <<"m3u8">>}

IGNORE == {<<>>, <<"ifo">>, <<"bup">>, <<"log">>, <<"txt">>}

CUE_EXT == {<<"cue">>}

\* faulty variant of _build_analyzer: the playlist loop appends to d.videos
BuildAnalyzerPlaylistAsVideos(ext) ==
    IF ext \in CUE_EXT THEN "cue"
    ELSE IF ext \in PLAYLIST \cup VIDEOS THEN "videos"
    ELSE IF ext \in IMAGES THEN "images"
    ELSE IF ext \in COMPRESSED THEN "compressed"
    ELSE IF ext \in LOSSLESS THEN "lossless"
    ELSE IF ext \in IGNORE THEN "ignored"
    ELSE "unknown"

\* The dictionary _build_analyzer returns, as extension -> category.  The loops
\* assign in the order IGNORE, LOSSLESS, COMPRESSED, IMAGES, VIDEOS, PLAYLIST,
\* cue, and a later assignment replaces an earlier one.
_build_analyzer(ext) ==
    IF ext \in CUE_EXT THEN "cue"
    ELSE IF ext \in PLAYLIST THEN "playlist"
    ELSE IF ext \in VIDEOS THEN "videos"
    ELSE IF ext \in IMAGES THEN "images"
    ELSE IF ext \in COMPRESSED THEN "compressed"
    ELSE IF ext \in LOSSLESS THEN "lossless"
    ELSE IF ext \in IGNORE THEN "ignored"
    ELSE "unknown"

-----------------------------------------------------------------------------
(* musiclinter/directory.py: Directory *)

\* Directory.__init__: the empty node
NewDirectory ==
    [lossless |-> <<>>, compressed |-> <<>>, cue |-> <<>>, images |-> <<>>,
     videos |-> <<>>, playlist |-> <<>>, ignored |-> 0, unknown |-> <<>>]

\* d.unknown is a dict extension -> count; it is kept as a sequence of
\* <<extension, count>> pairs in insertion order, the keys distinct.
UnknownKeys(u) == {u[i][1] : i \in 1..Len(u)}

UnknownGet(u, v) ==
    IF v \in UnknownKeys(u)
    THEN u[CHOOSE i \in 1..Len(u) : u[i][1] = v][2]
    ELSE 0

\* faulty variant of count: a key is counted once, however often it occurs
CountOnce(u, v) ==
    IF v \in UnknownKeys(u) THEN u ELSE Append(u, <<v, 1>>)

\* count(d, v): d[v] = d.get(v, 0) + 1
count(u, v) ==
    IF v \in UnknownKeys(u)
    THEN [i \in 1..Len(u) |-> IF u[i][1] = v THEN <<v, u[i][2] + 1>> ELSE u[i]]
    ELSE Append(u, <<v, 1>>)

\* Directory.analyze_file
analyze_file(dir, name) ==
    LET ext == lowerext(name)
        cat == _build_analyzer(ext)
    IN  CASE cat = "ignored"    -> [dir EXCEPT !.ignored = @ + 1]
          [] cat = "lossless"   -> [dir EXCEPT !.lossless = Append(@, name)]
          [] cat = "compressed" -> [dir EXCEPT !.compressed = Append(@, name)]
          [] cat = "images"     -> [dir EXCEPT !.images = Append(@, name)]
          [] cat = "videos"     -> [dir EXCEPT !.videos = Append(@, name)]
          [] cat = "playlist"   -> [dir EXCEPT !.playlist = Append(@, name)]
          [] cat = "cue"        -> [dir EXCEPT !.cue = Append(@, name)]
          [] OTHER              -> [dir EXCEPT !.unknown = count(@, ext)]

\* the loop `for f in files: self.analyze_file(f)` of Directory.analyze
RECURSIVE AnalyzeFrom(_, _, _)
AnalyzeFrom(dir, files, i) ==
    IF i > Len(files) THEN dir
    ELSE AnalyzeFrom(analyze_file(dir, files[i]), files, i + 1)

-----------------------------------------------------------------------------
(* musiclinter.py: the standalone script's helpers *)

\* os.path.splitext: <<root, ext>>, ext empty or starting with the dot; the
\* last dot splits the name unless only dots come before it
splitext(name) ==
    LET i == LastDot(name)
    IN  IF i > 0 /\ \E j \in 1..(i - 1) : name[j] # "."
        THEN <<SubSeq(name, 1, i - 1), SubSeq(name, i, Len(name))>>
        ELSE <<name, <<>>>>

\* fileextlow: the lower-cased extension without its dot
fileextlow(name) ==
    LET e == Lower(splitext(name)[2])
    IN  IF e # <<>> THEN Tail(e) ELSE <<>>

\* musiclinter.py: VIDEOS of the script
SCRIPT_VIDEOS ==
    {<<"avi">>, <<"m1v">>, <<"m2v">>, <<"mkv">>, <<"mov">>, <<"mp4">>, <<"mpeg">>,
     <<"mpg">>, <<"vob">>, <<"webm">>, <<"wmv">>}

\* Directory._analyze of the script, lines 247-253: the lists the checkers
\* read (lossless, compressed, images, videos, cue), in enumeration order
RECURSIVE ScriptAnalyzeFrom(_, _, _)
ScriptAnalyzeFrom(dir, files, i) ==
    IF i > Len(files) THEN dir
    ELSE LET e == fileextlow(files[i])
             nd == IF e \in LOSSLESS THEN [dir EXCEPT !.lossless = Append(@, files[i])]
                   ELSE IF e \in COMPRESSED THEN [dir EXCEPT !.compressed = Append(@, files[i])]
                   ELSE IF e \in CUE_EXT THEN [dir EXCEPT !.cue = Append(@, files[i])]
                   ELSE IF e \in IMAGES THEN [dir EXCEPT !.images = Append(@, files[i])]
                   ELSE IF e \in SCRIPT_VIDEOS
                        THEN [dir EXCEPT !.videos = Append(@, files[i])]
                   ELSE dir
         IN  ScriptAnalyzeFrom(nd, files, i + 1)

\* pathlib: PureWindowsPath(name).stem for a name without separators.  The
\* suffix starts at the last dot when that dot is neither the first nor the
\* last character.
WinStem(name) ==
    LET i == LastDot(name)
    IN  IF 0 < i - 1 /\ i - 1 < Len(name) - 1 THEN SubSeq(name, 1, i - 1) ELSE name

\* pathlib: Path.with_suffix(suffix) for a name without separators
with_suffix(name, suffix) == WinStem(name) \o suffix

-----------------------------------------------------------------------------
(* File contents and the disk *)

\* What the parsers read from the bytes of an index file: the encoding the
\* detector reports, the names of its FILE statements in order, and the token
\* of its REM DATE line ("" when there is none).
MkDoc(e, fs, dt) == [enc |-> e, files |-> fs, date |-> dt]

\* the bytes of a file that is not an index file
AudioBytes == MkDoc("binary", <<>>, "")

Unlink(dk, n) == [m \in DOMAIN dk \ {n} |-> dk[m]]

Rename(dk, a, b) ==
    [m \in (DOMAIN dk \ {a}) \cup {b} |-> IF m = b THEN dk[a] ELSE dk[m]]

WriteBytes(dk, n, c) == [m \in DOMAIN dk \cup {n} |-> IF m = n THEN c ELSE dk[m]]

\* musiclinter.py: CUE_ENCODING
CUE_ENCODING == {"ascii", "UTF-8-SIG"}

\* faulty variant of ENCODING_MAP: the detector's name is used as it is
EncodingRaw(e) == e

\* musiclinter.py: ENCODING_MAP.get(e, e)
ENCODING_MAP(e) == IF e = "MacCyrillic" THEN "windows-1251" ELSE e

\* faulty variant of Utf8Sig: no byte-order mark is written
Utf8Plain(fs, dt) == MkDoc("utf-8", fs, dt)

\* str.encode('UTF-8-SIG') / Cue.utf8(): the bytes written, as the detector
\* reads them back
Utf8Sig(fs, dt) == MkDoc("UTF-8-SIG", fs, dt)

-----------------------------------------------------------------------------
(* `for f in files: if test(f): ... break`: of the positions whose name passes
   the test, the first; 0 when there is none (the else branch of the loop) *)

FirstIndex(hits) ==
    IF hits = {} THEN 0 ELSE CHOOSE i \in hits : \A j \in hits : i <= j

-----------------------------------------------------------------------------
(* musiclinter.py: process_cue_data *)

\* str.replace(old, new) on a name: every non-overlapping occurrence of old,
\* left to right
RECURSIVE Replace(_, _, _)
Replace(s, old, new) ==
    IF old = <<>> \/ Len(s) < Len(old) THEN s
    ELSE IF SubSeq(s, 1, Len(old)) = old
         THEN new \o Replace(SubSeq(s, Len(old) + 1, Len(s)), old, new)
         ELSE <<Head(s)>> \o Replace(Tail(s), old, new)

\* The line scan (lines 358-385): the name of the FILE statement, and whether
\* the scan returned False: at a second FILE statement, or with no file name.
RECURSIVE ScanFrom(_, _, _)
ScanFrom(fs, i, filename) ==
    IF i > Len(fs) THEN [abort |-> filename = <<>>, filename |-> filename]
    ELSE IF filename # <<>> THEN [abort |-> TRUE, filename |-> filename]
    ELSE ScanFrom(fs, i + 1, fs[i])

\* Line 393-395: basename = os.path.splitext(filename) is the pair
\* (root, ext), and f.startswith(basename) with a tuple is true when f starts
\* with either member.
ScriptStartsWith(f, filename) ==
    LET basename == splitext(filename)
    IN  StartsWith(f, basename[1]) \/ StartsWith(f, basename[2])

\* Line 422: '.'.join([cue[:-4], suffix, 'cue']).  cue[:-4] drops the last
\* four characters: the dot and the three letters of the extension.
ScriptNewName(path, suffix) ==
    SubSeq(path, 1, Len(path) - 2) \o <<".">> \o suffix \o <<".", "cue">>

\* The list of names both checkers resolve references against: d.lossless
\* (cue.py line 51, musiclinter.py line 321)
CheckerFiles(dir) == dir.lossless

\* faulty variant of ScriptRepairDue: can_fix is not read
ScriptRepairDueAnyInvalid(ok, can_fix, fix_cue) ==
    ~ok /\ fix_cue \in {"OVERWRITE", "NEW"}

\* Line 417: not ok and can_fix and p.fix_cue > CueFix.CHECK
ScriptRepairDue(ok, can_fix, fix_cue) ==
    ~ok /\ can_fix /\ fix_cue \in {"OVERWRITE", "NEW"}

\* process_cue_data(cue, files, p, data), up to the decision to write.
\* year is guess_year(os.path.dirname(cue)), "" for None.
\*   ret      the value returned
\*   aborted  one of the early `return False`
\*   encoding the codec name data.decode is called with (line 356)
\*   at355    ok, can_fix and suffix after the encoding check (lines 350-354)
\*   refs     what became of the file reference
\*   write    the branch of line 417 is taken
process_cue_data(path, files, fix_cue, data, year) ==
    LET e == data.enc
        bad == e \notin CUE_ENCODING
        ok0 == ~bad
        can0 == bad
        suffix0 == IF bad THEN <<"utf8">> ELSE <<"fixed">>
        scan == ScanFrom(data.files, 1, <<>>)
        filename == scan.filename
        found == filename \in Range(files)
        k == FirstIndex({i \in 1..Len(files) : ScriptStartsWith(files[i], filename)})
        stale == ~found /\ k > 0
        f == IF stale THEN files[k] ELSE filename
        content == IF stale
                   THEN [i \in 1..Len(data.files) |-> Replace(data.files[i], filename, f)]
                   ELSE data.files
        ok1 == IF stale THEN FALSE ELSE ok0
        can1 == IF stale THEN TRUE ELSE can0
        suffix1 == IF stale THEN fileextlow(f) ELSE suffix0
        nodate == data.date = ""
        ok2 == IF nodate THEN FALSE ELSE ok1
        write == ScriptRepairDue(ok2, can1, fix_cue)
        newdate == IF nodate /\ year # "" THEN year ELSE data.date
        encoding == ENCODING_MAP(e)
        at355 == [ok |-> ok0, can_fix |-> can0, suffix |-> suffix0]
    IN  IF scan.abort
        THEN [ret |-> FALSE, aborted |-> TRUE, ok |-> ok0, can_fix |-> can0,
              refs |-> <<>>, write |-> FALSE, new_name |-> path,
              content |-> data, suffix |-> suffix0,
              encoding |-> encoding, at355 |-> at355]
        ELSE IF ~found /\ k = 0
        THEN [ret |-> FALSE, aborted |-> TRUE, ok |-> ok0, can_fix |-> can0,
              refs |-> <<[ref |-> filename, kind |-> "missing", to |-> filename]>>,
              write |-> FALSE, new_name |-> path, content |-> data,
              suffix |-> suffix0,
              encoding |-> encoding, at355 |-> at355]
        ELSE [ret |-> ok2, aborted |-> FALSE, ok |-> ok2, can_fix |-> can1,
              refs |-> <<[ref |-> filename,
                          kind |-> IF stale THEN "stale" ELSE "resolved",
                          to |-> f]>>,
              write |-> write,
              new_name |-> IF fix_cue = "OVERWRITE" THEN path
                           ELSE ScriptNewName(path, suffix1),
              content |-> Utf8Sig(content, newdate), suffix |-> suffix1,
              encoding |-> encoding, at355 |-> at355]

-----------------------------------------------------------------------------
(* musiclinter/cue.py: CueLinter.process_cue *)

\* kstools.cue.Cue(path, data): the parsed document.  valid and can_fix as
\* section 4.4 of the specification states them: an encoding that is not
\* clean is invalid and repairable, a second FILE statement is invalid and
\* not repairable, a missing date is invalid.
Cue(data) ==
    LET bad == data.enc \notin CUE_ENCODING
        multi == Len(data.files) > 1
    IN  [valid |-> ~bad /\ ~multi /\ data.date # "",
         can_fix |-> bad /\ ~multi,
         nr_files |-> Len(data.files),
         tracks |-> data.files,
         date |-> data.date]

\* The loop `for track in cue.tracks` (lines 64-95), from track i on.
RECURSIVE Tracks(_, _, _, _)
Tracks(c, refs, files, i) ==
    IF i > Len(c.tracks) THEN [cue |-> c, refs |-> refs]
    ELSE LET file == c.tracks[i]
             stem == WinStem(file)
             k == FirstIndex({j \in 1..Len(files) : StartsWith(files[j], stem)})
         IN  IF file = <<>>
             THEN Tracks(c,
                      Append(refs, [ref |-> file, kind |-> "skipped", to |-> file]),
                      files, i + 1)
             ELSE IF file \in Range(files)
             THEN Tracks(c,
                      Append(refs, [ref |-> file, kind |-> "resolved", to |-> file]),
                      files, i + 1)
             ELSE IF k > 0
             THEN Tracks(
                      [c EXCEPT !.tracks[i] = files[k], !.valid = FALSE, !.can_fix = TRUE],
                      Append(refs, [ref |-> file, kind |-> "stale", to |-> files[k]]),
                      files, i + 1)
             ELSE Tracks(
                      [c EXCEPT !.valid = FALSE, !.can_fix = FALSE],
                      Append(refs, [ref |-> file, kind |-> "missing", to |-> file]),
                      files, i + 1)

\* Line 108: path.with_suffix(".lint.cue")
PkgNewName(path, c) == with_suffix(path, <<".", "lint", ".", "cue">>)

\* faulty variant of PkgRepairDue: CueLinter.fix is not read
PkgRepairDueNoFix(c, fix) == ~c.valid /\ c.can_fix

\* Lines 97-103: `if cue.valid: return` and `if cue.can_fix and CueLinter.fix`
PkgRepairDue(c, fix) == ~c.valid /\ c.can_fix /\ fix

\* process_cue(path, files), up to the decision to write (line 103).
\* year is year_string(path.parent.name).
process_cue(path, files, fix, overwrite, data, year) ==
    LET r == Tracks(Cue(data), <<>>, files, 1)
        c == r.cue
        write == PkgRepairDue(c, fix)
        newdate == IF c.date = "" /\ year # "" THEN year ELSE c.date
    IN  [ret |-> c.valid, aborted |-> FALSE, ok |-> c.valid, can_fix |-> c.can_fix,
         refs |-> r.refs, write |-> write,
         new_name |-> IF overwrite THEN path ELSE PkgNewName(path, c),
         content |-> Utf8Sig(c.tracks, newdate), suffix |-> <<"lint">>]

-----------------------------------------------------------------------------
(* The inputs of the cue specification *)

CueName == <<"album", ".", "cue">>

TrackFlac == <<"track", ".", "flac">>
Track10Flac == <<"track", "10", ".", "flac">>
XFlac == <<"x", ".", "flac">>
XMp3 == <<"x", ".", "mp3">>
NotesXyz == <<"notes", ".", "xyz">>
CoverJpg == <<"cover", ".", "jpg">>
TrackWav == <<"track", ".", "wav">>
TrackNoExt == <<"track">>

LosslessNames == {TrackFlac, Track10Flac, XFlac}

\* what else the directory holds: nothing, a compressed file, a file of
\* unknown type, an image
OtherFiles == {<<>>, <<XMp3>>, <<NotesXyz>>, <<CoverJpg>>}

RefNames == {TrackWav, TrackFlac, XMp3, TrackNoExt}

Encodings == {"ascii", "MacCyrillic"}

Dates == {"", "2001"}

\* what guess_year makes of the directory's name
Years == {"", "1999"}

\* the sequences of at most n distinct members of S
DistinctSeqs(S, n) ==
    UNION {{q \in [1..k -> S] : \A i, j \in 1..k : q[i] = q[j] => i = j} : k \in 0..n}

Docs ==
    {MkDoc(e, fs, dt) : e \in Encodings, fs \in DistinctSeqs(RefNames, MaxRefs), dt \in Dates}

Options ==
    [impl : {"pkg"}, fix : BOOLEAN, overwrite : BOOLEAN, delete : BOOLEAN,
     fix_cue : {"IGNORE"}]
    \cup
    [impl : {"script"}, fix : {FALSE}, overwrite : {FALSE}, delete : {FALSE},
     fix_cue : {"IGNORE", "CHECK", "OVERWRITE", "NEW"}]

NoCue ==
    [ret |-> TRUE, aborted |-> FALSE, ok |-> TRUE, can_fix |-> FALSE, refs |-> <<>>,
     write |-> FALSE, new_name |-> <<>>, content |-> AudioBytes, suffix |-> <<>>]

NoCounts == [nr_invalid |-> 0, nr_deleted |-> 0, nr_fixed |-> 0]

\* hist: what the checker did to the index file it handled last (seen, orphan,
\* path, doc: its bytes, before: the disk when it was read, res: the result of
\* the parse, ops: the file operations since, counts: the counters before),
\* orig: the same for the first index file of the first walk, and prev: the
\* disk when the walk before this one ended.
NoOrig == [set |-> FALSE, doc |-> AudioBytes, files |-> <<>>, out |-> <<>>]

NoHist ==
    [seen |-> FALSE, orphan |-> FALSE, path |-> <<>>, doc |-> AudioBytes,
     before |-> <<>>, res |-> NoCue, ops |-> <<>>, counts |-> NoCounts,
     orig |-> NoOrig, prev |-> <<>>]

\* CoverLinter.__init__
NewCoverLinter == [no_cover |-> FALSE, nr_wrong_name |-> 0]

\* Processor.__init__: the cover statistics
NewProcessor == [nr_no_cover |-> 0, nr_wrong_cover_name |-> 0]

\* the state outside the classifier and the cue checkers, as constructed
OthersIdle ==
    /\ coverlinter = NewCoverLinter
    /\ processor = NewProcessor
    /\ tree = <<>>
    /\ paths = <<>>
    /\ pi = 1
    /\ state = [recursive |-> FALSE, linters |-> <<>>]
    /\ nodes = <<>>
    /\ stack = <<>>
    /\ wpc = "idle"
    /\ text = <<>>
    /\ guess = <<>>

\* repair mode and overwrite mode, for both checkers: CueLinter.fix and
\* CueLinter.overwrite, or fix_cue > CueFix.CHECK and fix_cue == OVERWRITE
FixOn == IF impl = "pkg" THEN opts.fix ELSE opts.fix_cue \in {"OVERWRITE", "NEW"}

OverwriteOn == IF impl = "pkg" THEN opts.overwrite ELSE opts.fix_cue = "OVERWRITE"

\* the files of a disk that hold an index document
IndexFiles(dk) ==
    LET S == {n \in DOMAIN dk : dk[n] # AudioBytes}
    IN  [n \in S |-> dk[n]]

InitWith(o, ls, other, doc) ==
    /\ impl = o.impl
    /\ opts = o
    /\ listing = ls \o other \o <<CueName>>
    /\ disk = [n \in Range(ls) \cup Range(other) \cup {CueName} |->
                  IF n = CueName THEN doc ELSE AudioBytes]
    /\ pos = 0
    /\ d = NewDirectory
    /\ pc = "analyze"
    /\ linter = NoCounts
    /\ ci = 1
    /\ cue = NoCue
    /\ run = 1
    /\ hist = NoHist
    /\ OthersIdle

Init ==
    \E o \in Options, ls \in DistinctSeqs(LosslessNames, MaxFiles),
       other \in OtherFiles, doc \in Docs :
        InitWith(o, ls, other, doc)

-----------------------------------------------------------------------------
(* The walk over one directory *)

\* Directory.analyze (package) / Directory._analyze (script): the listing is
\* classified; the package then makes a fresh CueLinter for the directory.
Analyze ==
    /\ pc = "analyze"
    /\ d' = IF impl = "pkg" THEN AnalyzeFrom(NewDirectory, listing, 1)
            ELSE ScriptAnalyzeFrom(NewDirectory, listing, 1)
    /\ pos' = Len(listing)
    /\ linter' = NoCounts
    /\ ci' = 1
    /\ pc' = "lint"
    /\ hist' = [NoHist EXCEPT !.orig = hist.orig, !.prev = hist.prev]
    /\ UNCHANGED <<others, impl, opts, listing, disk, cue, run>>

\* faulty variant of no_music: the files of unknown type are forgotten
NoMusicAudioOnly(dir) == dir.lossless = <<>> /\ dir.compressed = <<>>

\* cue.py line 39
no_music(dir) == dir.lossless = <<>> /\ dir.compressed = <<>> /\ dir.unknown = <<>>

Observe(path, r, orphan) ==
    [hist EXCEPT !.seen = TRUE, !.orphan = orphan, !.path = path,
                 !.doc = disk[path], !.before = disk, !.res = r, !.ops = <<>>,
                 !.counts = linter,
                 !.orig = IF hist.orig.set THEN hist.orig
                          ELSE [set |-> TRUE, doc |-> disk[path],
                                files |-> CheckerFiles(d),
                                out |-> IF r.write THEN r.new_name ELSE <<>>]]

\* CueLinter.lint, lines 43-47: the index file of a directory without music
\* is removed
PkgDelete ==
    /\ pc = "lint" /\ impl = "pkg" /\ ci <= Len(d.cue)
    /\ no_music(d) /\ opts.delete
    /\ d.cue[ci] \in DOMAIN disk
    /\ disk' = Unlink(disk, d.cue[ci])
    /\ linter' = [linter EXCEPT !.nr_deleted = @ + 1]
    /\ hist' = [Observe(d.cue[ci], NoCue, TRUE) EXCEPT
                   !.ops = <<<<"unlink", d.cue[ci]>>>>]
    /\ ci' = ci + 1
    /\ UNCHANGED <<others, impl, opts, listing, pos, d, pc, cue, run>>

\* CueLinter.lint, lines 48-49: the index file is only reported
PkgReport ==
    /\ pc = "lint" /\ impl = "pkg" /\ ci <= Len(d.cue)
    /\ no_music(d) /\ ~opts.delete
    /\ d.cue[ci] \in DOMAIN disk
    /\ hist' = Observe(d.cue[ci], NoCue, TRUE)
    /\ ci' = ci + 1
    /\ UNCHANGED <<others, impl, opts, listing, pos, d, disk, pc, linter, cue, run>>

\* What follows the parse in both checkers: the counters, and the position
\* of the repair when one is due.
AfterParse(path, r) ==
    /\ hist' = Observe(path, r, FALSE)
    /\ cue' = r
    /\ IF r.write
       THEN /\ pc' = IF OverwriteOn THEN "rename" ELSE "write"
            /\ ci' = ci
            /\ linter' = IF impl = "pkg"
                         THEN [linter EXCEPT !.nr_invalid = @ + 1]
                         ELSE linter
       ELSE /\ pc' = "lint"
            /\ ci' = ci + 1
            /\ linter' = IF r.ret THEN linter
                         ELSE [linter EXCEPT !.nr_invalid = @ + 1]
    /\ UNCHANGED <<others, impl, opts, listing, pos, d, disk, run>>

\* CueLinter.lint line 51 and process_cue lines 54-103
PkgProcess ==
    /\ pc = "lint" /\ impl = "pkg" /\ ci <= Len(d.cue)
    /\ ~no_music(d)
    /\ d.cue[ci] \in DOMAIN disk
    /\ \E year \in Years :
          AfterParse(d.cue[ci],
                     process_cue(d.cue[ci], CheckerFiles(d), opts.fix, opts.overwrite,
                                 disk[d.cue[ci]], year))

\* Directory._process of the script (lines 318-322) and process_cue_data up
\* to line 417
ScriptProcess ==
    /\ pc = "lint" /\ impl = "script" /\ ci <= Len(d.cue)
    /\ opts.fix_cue # "IGNORE"
    /\ d.cue[ci] \in DOMAIN disk
    /\ \E year \in Years :
          AfterParse(d.cue[ci],
                     process_cue_data(d.cue[ci], CheckerFiles(d), opts.fix_cue,
                                      disk[d.cue[ci]], year))

\* Directory._process with fix_cue == CueFix.IGNORE: no index file is read
ScriptIgnore ==
    /\ pc = "lint" /\ impl = "script" /\ opts.fix_cue = "IGNORE"
    /\ pc' = "done"
    /\ UNCHANGED <<others, impl, opts, listing, pos, d, disk, linter, ci, cue, run, hist>>

\* the name the original is moved to: cue + '.bak'
BackupName(path) == path \o <<".", "bak">>

\* musiclinter.py line 419: os.rename(cue, cue + '.bak')
ScriptRename ==
    /\ pc = "rename" /\ impl = "script"
    /\ disk' = Rename(disk, d.cue[ci], BackupName(d.cue[ci]))
    /\ hist' = [hist EXCEPT !.ops = Append(@, <<"rename", d.cue[ci]>>)]
    /\ pc' = "write"
    /\ UNCHANGED <<others, impl, opts, listing, pos, d, linter, ci, cue, run>>

\* cue.py line 105: path.rename(path + ".bak").  path is a pathlib.Path, and
\* Path + str raises TypeError before rename is called; nothing catches it.
PkgRename ==
    /\ pc = "rename" /\ impl = "pkg"
    /\ pc' = "raised"
    /\ UNCHANGED <<others, impl, opts, listing, pos, d, disk, linter, ci, cue, run, hist>>

\* faulty variant of Write: the file is written and no counter is touched
WriteUncounted ==
    /\ pc = "write"
    /\ disk' = WriteBytes(disk, cue.new_name, cue.content)
    /\ hist' = [hist EXCEPT !.ops = Append(@, <<"write", cue.new_name>>)]
    /\ ci' = ci + 1
    /\ pc' = "lint"
    /\ cue' = NoCue
    /\ UNCHANGED <<others, impl, opts, listing, pos, d, run, linter>>

\* cue.py lines 115-117 / musiclinter.py lines 427-434: the corrected content
\* is written; the package counts the file as fixed, the script returns
\* False and its caller counts the file as wrong
Write ==
    /\ pc = "write"
    /\ disk' = WriteBytes(disk, cue.new_name, cue.content)
    /\ hist' = [hist EXCEPT !.ops = Append(@, <<"write", cue.new_name>>)]
    /\ linter' = IF impl = "pkg"
                 THEN [linter EXCEPT !.nr_fixed = @ + 1]
                 ELSE [linter EXCEPT !.nr_invalid = @ + 1]
    /\ ci' = ci + 1
    /\ pc' = "lint"
    /\ cue' = NoCue
    /\ UNCHANGED <<others, impl, opts, listing, pos, d, run>>

\* the process dies between two file operations of a repair
Crash ==
    /\ pc \in {"rename", "write"}
    /\ pc' = "crashed"
    /\ UNCHANGED <<others, impl, opts, listing, pos, d, disk, linter, ci, cue, run, hist>>

\* the loop over d.cue ends
LintDone ==
    /\ pc = "lint" /\ ci > Len(d.cue)
    /\ ~(impl = "script" /\ opts.fix_cue = "IGNORE")
    /\ pc' = "done"
    /\ UNCHANGED <<others, impl, opts, listing, pos, d, disk, linter, ci, cue, run, hist>>

\* a sequence of the members of a finite set
SeqOf(S) == CHOOSE q \in [1..Cardinality(S) -> S] : Range(q) = S

\* what the next enumeration of the directory returns: the names that are
\* still there in the order they had, then the new names
Relist(old, dk) ==
    SelectSeq(old, LAMBDA n : n \in DOMAIN dk) \o SeqOf(DOMAIN dk \ Range(old))

\* the program is run again on the same directory
Rerun ==
    /\ pc = "done" /\ run < MaxRuns
    /\ run' = run + 1
    /\ listing' = Relist(listing, disk)
    /\ pos' = 0
    /\ d' = NewDirectory
    /\ pc' = "analyze"
    /\ linter' = NoCounts
    /\ ci' = 1
    /\ cue' = NoCue
    /\ hist' = [NoHist EXCEPT !.orig = hist.orig, !.prev = IndexFiles(disk)]
    /\ UNCHANGED <<others, impl, opts, disk>>

\* the files another program may add to the directory while the checker runs
LateNames == {TrackWav}

\* a file appears in the directory after the directory was classified
EnvCreate ==
    /\ pc = "lint"
    /\ \E n \in LateNames \ DOMAIN disk :
          disk' = WriteBytes(disk, n, AudioBytes)
    /\ UNCHANGED <<others, impl, opts, listing, pos, d, pc, linter, ci, cue, run, hist>>

Next ==
    \/ Analyze
    \/ PkgDelete
    \/ PkgReport
    \/ PkgProcess
    \/ ScriptProcess
    \/ ScriptIgnore
    \/ ScriptRename
    \/ PkgRename
    \/ Write
    \/ Crash
    \/ LintDone

Spec == Init /\ [][Next]_vars

\* Documents with one FILE statement, walked MaxRuns times, while files
\* may appear in the directory.
InitRerun ==
    \E o \in Options, ls \in DistinctSeqs(LosslessNames, MaxFiles),
       other \in OtherFiles, e \in Encodings, ref \in RefNames, dt \in Dates :
        InitWith(o, ls, other, MkDoc(e, <<ref>>, dt))

NextRerun ==
    \/ Next
    \/ Rerun
    \/ EnvCreate

SpecRerun == InitRerun /\ [][NextRerun]_vars

-----------------------------------------------------------------------------
(* The classifier alone: Directory.analyze, one file of the listing at a time *)

DirNames ==
    {<<"a", ".", "flac">>, <<"b", ".", "FLAC">>, <<"c", ".", "Mp3">>,
     <<"Front", ".", "jpg">>, <<"README">>, <<"notes", ".", "xyz">>,
     <<"more", ".", "XYZ">>, <<"info", ".", "nfo">>, <<"album", ".", "CUE">>,
     <<"v", ".", "ifo">>, <<"l", ".", "m3u">>, <<"end", ".">>}

InitDir ==
    \E ls \in DistinctSeqs(DirNames, MaxListing) :
        /\ impl = "pkg"
        /\ opts = [impl |-> "pkg", fix |-> FALSE, overwrite |-> FALSE,
                   delete |-> FALSE, fix_cue |-> "IGNORE"]
        /\ listing = ls
        /\ disk = [n \in Range(ls) |-> AudioBytes]
        /\ pos = 0
        /\ d = NewDirectory
        /\ pc = "analyze"
        /\ linter = NoCounts
        /\ ci = 1
        /\ cue = NoCue
        /\ run = 1
        /\ hist = NoHist
        /\ OthersIdle

\* one turn of the loop `for f in files: self.analyze_file(f)`
AnalyzeFile ==
    /\ pc = "analyze" /\ pos < Len(listing)
    /\ d' = analyze_file(d, listing[pos + 1])
    /\ pos' = pos + 1
    /\ UNCHANGED <<others, impl, opts, listing, disk, pc, linter, ci, cue, run, hist>>

\* the loop ends: the node's own files are classified
AnalyzeEnd ==
    /\ pc = "analyze" /\ pos = Len(listing)
    /\ pc' = "classified"
    /\ UNCHANGED <<others, impl, opts, listing, pos, d, disk, linter, ci, cue, run, hist>>

NextDir ==
    \/ AnalyzeFile
    \/ AnalyzeEnd

SpecDir == InitDir /\ [][NextDir]_vars

-----------------------------------------------------------------------------
(* Properties of the classifier *)

RECURSIVE SumCounts(_)
SumCounts(u) == IF u = <<>> THEN 0 ELSE Head(u)[2] + SumCounts(Tail(u))

ListNames == {"lossless", "compressed", "images", "videos", "playlist", "cue"}

\* every extension the fixed table knows
TableExts ==
    LOSSLESS \cup COMPRESSED \cup IMAGES \cup VIDEOS \cup PLAYLIST \cup IGNORE \cup CUE_EXT

\* the number of files the node accounts for
Accounted(dir) ==
    Len(dir.lossless) + Len(dir.compressed) + Len(dir.images) + Len(dir.videos)
        + Len(dir.playlist) + Len(dir.cue) + dir.ignored + SumCounts(dir.unknown)

\* the number of places file n is held in: the lists that hold its name,
\* and the unknown/ignored counters when its extension is counted there
Places(dir, n) ==
    Cardinality({L \in ListNames : n \in Range(dir[L])})
        + (IF lowerext(n) \in UnknownKeys(dir.unknown) THEN 1 ELSE 0)
        + (IF lowerext(n) \in IGNORE /\ dir.ignored > 0 THEN 1 ELSE 0)

\* C10: at every point of the classification loop, and so once the node is
\* built, the six lists, the ignored count and the unknown counts together
\* account for exactly the files classified so far, every classified file is
\* held in exactly one place, and the keys of the unknown map are exactly the
\* lower-cased extensions seen so far that the fixed table does not have.
C10_EveryFileCountedOnce ==
    pc \in {"analyze", "classified"} =>
        /\ Accounted(d) = pos
        /\ \A i \in 1..pos : Places(d, listing[i]) = 1
        /\ UnknownKeys(d.unknown)
              = {lowerext(listing[i]) : i \in 1..pos} \ TableExts
        /\ \A e \in UnknownKeys(d.unknown) :
              UnknownGet(d.unknown, e)
                  = Cardinality({i \in 1..pos : lowerext(listing[i]) = e})

\* C10 witness: a node is built from a full listing with two files of the
\* same unknown extension and a lossless file
C10_Witness ==
    /\ pc = "classified"
    /\ pos = MaxListing
    /\ \E e \in UnknownKeys(d.unknown) : UnknownGet(d.unknown, e) = 2
    /\ d.lossless # <<>>

-----------------------------------------------------------------------------
(* Properties of the cue checkers *)

\* the outcome of the document handled last
Valid == hist.res.ret

CanRepair == hist.res.can_fix /\ ~hist.res.aborted

\* the document handled last was read and parsed
Parsed == hist.seen /\ ~hist.orphan

Untouched == disk = hist.before /\ hist.ops = <<>>

\* the text of a name before its last dot; the whole name when it has no dot
StemOf(name) ==
    IF LastDot(name) = 0 THEN name ELSE SubSeq(name, 1, LastDot(name) - 1)

\* the names of a list that start with the stem of a reference
StemMatches(files, ref) ==
    {i \in 1..Len(files) : StartsWith(files[i], StemOf(ref))}

Unresolvable(files, ref) == ref \notin Range(files) /\ StemMatches(files, ref) = {}

Recoverable(files, ref) == ref \notin Range(files) /\ StemMatches(files, ref) # {}

\* C1: once an index document has been parsed, the disk differs from the
\* disk it was read from, or a file operation has been made, only if the
\* document was found not valid, can be repaired, and repair mode is on.
C1_RepairOnlyWhenDue ==
    Parsed => (~(~Valid /\ CanRepair /\ FixOn) => Untouched)

\* C1 witness: a document found invalid and repairable was rewritten in
\* repair mode
C1_Witness ==
    /\ Parsed /\ ~Valid /\ CanRepair /\ FixOn
    /\ hist.ops # <<>> /\ disk # hist.before
    /\ pc = "done"

\* C2: a parsed document with two or more FILE statements ends not valid
\* and not repairable, and no file operation is made for it.
C2_TwoFilesNeverRepaired ==
    (Parsed /\ Len(hist.doc.files) >= 2) => (~Valid /\ ~CanRepair /\ Untouched)

\* C3: a parsed document with a reference that names no listed file and
\* whose stem starts no listed name ends not valid and not repairable, and
\* no file operation is made for it.
C3_UnresolvableNeverRepaired ==
    (Parsed /\ \E i \in 1..Len(hist.doc.files) :
                   Unresolvable(CheckerFiles(d), hist.doc.files[i]))
        => (~Valid /\ ~CanRepair /\ Untouched)

\* C4: a repair that is due in overwrite mode is carried out: it does not
\* end in an error, the original bytes are at every moment under the
\* original name or under the backup name, and once it is complete the
\* backup name holds the original bytes and the original name the corrected
\* content.
C4_OverwriteKeepsBackup ==
    (Parsed /\ hist.res.write /\ OverwriteOn) =>
        /\ pc # "raised"
        /\ \/ (hist.path \in DOMAIN disk /\ disk[hist.path] = hist.doc)
           \/ (BackupName(hist.path) \in DOMAIN disk
                 /\ disk[BackupName(hist.path)] = hist.doc)
        /\ pc \in {"lint", "done"} =>
              /\ BackupName(hist.path) \in DOMAIN disk
              /\ disk[BackupName(hist.path)] = hist.doc
              /\ hist.path \in DOMAIN disk
              /\ disk[hist.path] = hist.res.content

\* the repair suffix tags allowed for a parsed document
ClaimTags ==
    {<<"utf8">> : x \in {1} \cap {IF hist.doc.enc \notin CUE_ENCODING THEN 1 ELSE 0}}
    \cup {lowerext(hist.res.refs[i].to) :
             i \in {j \in 1..Len(hist.res.refs) : hist.res.refs[j].kind = "stale"}}

\* C5: a repair written in non-overwrite mode goes to the sibling
\* <stem>.<tag>.<extension> of the original, the tag being utf8 for an
\* encoding fix and the extension of the resolved file for a stale-extension
\* fix, and the original keeps its name and its bytes.
C5_SiblingNameHasTag ==
    (Parsed /\ ~OverwriteOn /\ hist.ops # <<>>) =>
        /\ hist.ops[1][1] = "write"
        /\ \E tag \in ClaimTags :
              hist.ops[1][2]
                  = StemOf(hist.path) \o <<".">> \o tag \o <<".">>
                        \o SubSeq(hist.path, LastDot(hist.path) + 1, Len(hist.path))
        /\ hist.path \in DOMAIN disk /\ disk[hist.path] = hist.doc

\* the directory holds no lossless, no compressed and no unknown-type file
NoMusicIn(dir) == dir.lossless = <<>> /\ dir.compressed = <<>> /\ dir.unknown = <<>>

StaleOnly ==
    /\ hist.orig.set
    /\ hist.orig.doc.enc \in CUE_ENCODING
    /\ hist.orig.doc.date # ""
    /\ Len(hist.orig.doc.files) = 1
    /\ Recoverable(hist.orig.files, hist.orig.doc.files[1])

\* C7: for a document whose only defect is a stale-extension reference, the
\* repaired output is found valid when a later walk parses it, and a later
\* walk leaves every index file as the walk before left it.
C7_RepairIdempotent ==
    (StaleOnly /\ run > 1) =>
        /\ (Parsed /\ hist.orig.out # <<>> /\ hist.path = hist.orig.out) => Valid
        /\ pc = "done" => IndexFiles(disk) = hist.prev

\* C7 witness: the second walk has ended after the first walk repaired a
\* document whose only defect was a stale-extension reference
C7_Witness ==
    /\ StaleOnly /\ run = 2 /\ pc = "done"
    /\ hist.orig.out # <<>>
    /\ hist.orig.out \in DOMAIN disk
    /\ Parsed /\ hist.path = hist.orig.out /\ Valid
    /\ IndexFiles(disk) = hist.prev

\* C8: a reference that is not listed, in a document that has no
\* unresolvable reference, is rewritten to the first listed name that starts
\* with its stem, and the document ends not valid and repairable.
C8_FirstStemMatch ==
    (Parsed /\ ~hist.res.aborted) =>
        \A i \in 1..Len(hist.res.refs) :
            LET ref == hist.res.refs[i].ref
                files == CheckerFiles(d)
            IN  (/\ Recoverable(files, ref)
                 /\ \A j \in 1..Len(hist.doc.files) :
                        ~Unresolvable(files, hist.doc.files[j]))
                    => /\ hist.res.refs[i].kind = "stale"
                       /\ \E k \in StemMatches(files, ref) :
                             /\ \A m \in StemMatches(files, ref) : k <= m
                             /\ hist.res.refs[i].to = files[k]
                             /\ hist.res.content.files[i] = files[k]
                       /\ ~Valid /\ CanRepair

\* C9: an examined reference is accepted as resolved exactly when it is one
\* of the lossless or compressed names the classification recorded.
C9_ResolvedIffClassifiedAudio ==
    Parsed =>
        \A i \in 1..Len(hist.res.refs) :
            (hist.res.refs[i].kind = "resolved")
                <=> (hist.res.refs[i].ref \in Range(d.lossless) \cup Range(d.compressed))

-----------------------------------------------------------------------------
(* The classifier on one name: a node whose directory holds a single file *)

\* the extensions of the names tried: every extension of the tables, some in
\* upper case, and some the tables do not have
TriedExts ==
    {<<e>> : e \in {"alac", "ape", "flac", "wav", "wv", "FLAC",
                    "aac", "m4a", "mp3", "ogg", "opus", "wma", "Mp3",
                    "bmp", "gif", "jpeg", "jpg", "png", "tiff",
                    "avi", "asf", "flv", "m1v", "m2v", "m4v", "mkv", "mov",
                    "mp4", "mpeg", "mpg", "ts", "vob", "webm", "wmv",
                    "ifo", "bup", "IFO", "BUP",
                    "m3u", "m3u8", "M3U8", "cue", "CUE", "log", "txt",
                    "xyz", "XYZ", "nfo", "doc", "pdf"}}

\* a.<ext> for every extension tried, a name without a dot, a name that ends
\* in a dot, and a name with two dots
OneNames ==
    {<<"a", ".">> \o e : e \in TriedExts}
        \cup {<<"README">>, <<"end", ".">>, <<"a", ".", "flac", ".", "txt">>}

InitOne ==
    \E n \in OneNames :
        /\ impl = "pkg"
        /\ opts = [impl |-> "pkg", fix |-> FALSE, overwrite |-> FALSE,
                   delete |-> FALSE, fix_cue |-> "IGNORE"]
        /\ listing = <<n>>
        /\ disk = (n :> AudioBytes)
        /\ pos = 0
        /\ d = NewDirectory
        /\ pc = "analyze"
        /\ linter = NoCounts
        /\ ci = 1
        /\ cue = NoCue
        /\ run = 1
        /\ hist = NoHist
        /\ OthersIdle

SpecOne == InitOne /\ [][NextDir]_vars

\* the category a node built from one file shows for that file
CategoryIn(dir) ==
    CASE dir.lossless # <<>>   -> "Lossless"
      [] dir.compressed # <<>> -> "Compressed"
      [] dir.images # <<>>     -> "Image"
      [] dir.videos # <<>>     -> "Video"
      [] dir.playlist # <<>>   -> "Playlist"
      [] dir.cue # <<>>        -> "Index"
      [] dir.ignored > 0       -> "Ignored"
      [] dir.unknown # <<>>    -> "Unknown"
      [] OTHER                 -> "none"

\* the table of the claim, with the video and the ignored row as parameters
TableWith(video, ignored, e) ==
    CASE e \in {<<"alac">>, <<"ape">>, <<"flac">>, <<"wav">>, <<"wv">>} -> "Lossless"
      [] e \in {<<"aac">>, <<"m4a">>, <<"mp3">>, <<"ogg">>, <<"opus">>, <<"wma">>}
            -> "Compressed"
      [] e \in {<<"bmp">>, <<"gif">>, <<"jpeg">>, <<"jpg">>, <<"png">>, <<"tiff">>}
            -> "Image"
      [] e \in {<<x>> : x \in video} -> "Video"
      [] e \in {<<"m3u">>, <<"m3u8">>} -> "Playlist"
      [] e = <<"cue">> -> "Index"
      [] e = <<>> \/ e \in {<<x>> : x \in ignored} -> "Ignored"
      [] OTHER -> "Unknown"

VideoNoDvd ==
    {"asf", "avi", "flv", "m1v", "m2v", "m4v", "mkv", "mov", "mp4", "mpeg",
     "mpg", "ts", "vob", "webm", "wmv"}

\* the tables of the code, pairwise without a common extension
TablesDisjoint ==
    LET T == <<LOSSLESS, COMPRESSED, IMAGES, VIDEOS, PLAYLIST, IGNORE, CUE_EXT>>
    IN  \A i, j \in 1..Len(T) : i # j => T[i] \cap T[j] = {}

\* the extension a name shows: what follows its last dot, in lower case
ShownExt(name) ==
    IF LastDot(name) = 0 THEN <<>>
    ELSE Lower(SubSeq(name, LastDot(name) + 1, Len(name)))

\* C11: the one file of a classified node is in the category the table of
\* the specification gives for its lower-cased extension, with bup and ifo
\* among the video extensions and only the empty extension, log and txt
\* ignored; and no extension is in two tables.
C11_ClassifyBySpecTable ==
    pc = "classified" =>
        /\ CategoryIn(d)
              = TableWith(VideoNoDvd \cup {"bup", "ifo"}, {"log", "txt"},
                          ShownExt(listing[1]))
        /\ TablesDisjoint

\* C11, amended: the same with bup and ifo among the ignored extensions and
\* not among the video extensions; the key recorded for a file of unknown
\* type is its lower-cased extension.
C11_ClassifyByCodeTable ==
    pc = "classified" =>
        /\ CategoryIn(d)
              = TableWith(VideoNoDvd, {"log", "txt", "bup", "ifo"},
                          ShownExt(listing[1]))
        /\ Accounted(d) = 1
        /\ CategoryIn(d) = "Unknown"
              => d.unknown = <<<<ShownExt(listing[1]), 1>>>>
        /\ TablesDisjoint

\* C11 witness: a file with the extension IFO has been classified and was
\* counted as ignored
C11_Witness ==
    /\ pc = "classified"
    /\ listing = <<<<"a", ".", "IFO">>>>
    /\ d.ignored = 1
    /\ d.videos = <<>>

-----------------------------------------------------------------------------
(* The cover checkers: musiclinter/covers.py and musiclinter.py lines 256-265 *)

\* kstools.files.lowername: the name without its extension, in lower case
lowername(name) ==
    IF LastDot(name) = 0 THEN Lower(name)
    ELSE Lower(SubSeq(name, 1, LastDot(name) - 1))

\* musiclinter.py: filenamelow
filenamelow(name) == Lower(splitext(name)[1])

\* CoverLinter.NAMES
NAMES == {<<"cover">>, <<"folder">>, <<"front">>}

\* musiclinter.py: COVER_NAMES
COVER_NAMES == {<<"cover">>, <<"folder">>, <<"front">>}

\* CoverLinter.valid_names
valid_names(images) == NAMES \cap {lowername(images[i]) : i \in 1..Len(images)}

\* musiclinter.py: have_valid_cover_name
have_valid_cover_name(images) ==
    COVER_NAMES \cap {filenamelow(images[i]) : i \in 1..Len(images)}

\* faulty variant of CoverLint: directories without audio are checked too
CoverLintNoMediaGuard(dir) ==
    IF dir.images = <<>> THEN [no_cover |-> TRUE, nr_wrong_name |-> 0]
    ELSE IF valid_names(dir.images) = {}
         THEN [no_cover |-> FALSE, nr_wrong_name |-> Len(dir.images)]
    ELSE NewCoverLinter

\* CoverLinter.lint on a fresh CoverLinter: the fields it leaves
CoverLint(dir) ==
    IF dir.lossless = <<>> /\ dir.compressed = <<>> THEN NewCoverLinter
    ELSE IF dir.images = <<>> THEN [no_cover |-> TRUE, nr_wrong_name |-> 0]
    ELSE IF valid_names(dir.images) = {}
         THEN [no_cover |-> FALSE, nr_wrong_name |-> Len(dir.images)]
    ELSE NewCoverLinter

\* Directory._analyze of the script, lines 256-265: the cover statistics
ScriptCoverStats(dir, st) ==
    IF dir.lossless # <<>> \/ dir.compressed # <<>> \/ dir.videos # <<>>
    THEN IF dir.lossless # <<>> \/ dir.compressed # <<>>
         THEN IF dir.images = <<>>
              THEN [st EXCEPT !.nr_no_cover = @ + 1]
              ELSE IF have_valid_cover_name(dir.images) = {}
                   THEN [st EXCEPT !.nr_wrong_cover_name = @ + 1]
                   ELSE st
         ELSE st
    ELSE st

\* the files of the directories the cover checkers are run on
CoverFiles ==
    {XFlac, XMp3, <<"cover", ".", "jpg">>, <<"Cover", ".", "png">>,
     <<"FOLDER", ".", "JPG">>, <<"scan", "1", ".", "jpg">>,
     <<"scan", "2", ".", "jpg">>, <<"front", ".", "cover", ".", "jpg">>,
     <<"v", ".", "avi">>, NotesXyz}

InitCovers ==
    \E i \in {"pkg", "script"}, ls \in DistinctSeqs(CoverFiles, MaxListing) :
        /\ impl = i
        /\ opts = [impl |-> i, fix |-> FALSE, overwrite |-> FALSE,
                   delete |-> FALSE, fix_cue |-> "IGNORE"]
        /\ listing = ls
        /\ disk = [n \in Range(ls) |-> AudioBytes]
        /\ pos = 0
        /\ d = NewDirectory
        /\ pc = "analyze"
        /\ linter = NoCounts
        /\ ci = 1
        /\ cue = NoCue
        /\ run = 1
        /\ hist = NoHist
        /\ OthersIdle

\* Directory.analyze with State.linters = [CoverLinter]: the files are
\* classified, then a fresh CoverLinter lints the node
PkgCovers ==
    /\ pc = "analyze" /\ impl = "pkg"
    /\ d' = AnalyzeFrom(NewDirectory, listing, 1)
    /\ pos' = Len(listing)
    /\ coverlinter' = CoverLint(d')
    /\ pc' = "covered"
    /\ UNCHANGED <<impl, opts, listing, disk, linter, ci, cue, run, hist, processor>>
    /\ UNCHANGED <<tree, paths, pi, state, nodes, stack, wpc, text, guess>>

\* Directory._analyze of the script, up to the cover statistics
ScriptCovers ==
    /\ pc = "analyze" /\ impl = "script"
    /\ d' = ScriptAnalyzeFrom(NewDirectory, listing, 1)
    /\ pos' = Len(listing)
    /\ processor' = ScriptCoverStats(d', processor)
    /\ pc' = "covered"
    /\ UNCHANGED <<impl, opts, listing, disk, linter, ci, cue, run, hist, coverlinter>>
    /\ UNCHANGED <<tree, paths, pi, state, nodes, stack, wpc, text, guess>>

NextCovers ==
    \/ PkgCovers
    \/ ScriptCovers

SpecCovers == InitCovers /\ [][NextCovers]_vars

\* the findings of the node's cover check, for both checkers
FoundNoCover ==
    IF impl = "pkg" THEN coverlinter.no_cover ELSE processor.nr_no_cover = 1

FoundWrongName ==
    IF impl = "pkg" THEN coverlinter.nr_wrong_name > 0
    ELSE processor.nr_wrong_cover_name = 1

\* some image's lower-cased name without its extension is cover, folder or front
HasCoverName(images) ==
    \E i \in 1..Len(images) :
        Lower(StemOf(images[i])) \in {<<"cover">>, <<"folder">>, <<"front">>}

\* the finding the cover check has to make: none, no cover, or wrong names,
\* and apart from the count nothing else: no second finding, no change on disk
CoverFindingAsDue ==
    LET media == d.lossless # <<>> \/ d.compressed # <<>>
    IN  /\ FoundNoCover <=> (media /\ d.images = <<>>)
        /\ FoundWrongName <=> (media /\ d.images # <<>> /\ ~HasCoverName(d.images))
        /\ ~(FoundNoCover /\ FoundWrongName)
        /\ coverlinter.no_cover => coverlinter.nr_wrong_name = 0
        /\ processor.nr_no_cover + processor.nr_wrong_cover_name <= 1
        /\ disk = [n \in Range(listing) |-> AudioBytes]

-----------------------------------------------------------------------------
(* The script's cue checker over the encodings the detector may report *)

\* encoding names of chardet: the two clean ones, the name that is remapped,
\* its target, and others
EncodingNames ==
    {"ascii", "UTF-8-SIG", "utf-8", "MacCyrillic", "windows-1251", "ISO-8859-1"}

InitEnc ==
    \E o \in {x \in Options : x.impl = "script"},
       ls \in DistinctSeqs(LosslessNames, 1), e \in EncodingNames,
       ref \in RefNames, dt \in Dates :
        InitWith(o, ls, <<>>, MkDoc(e, <<ref>>, dt))

NextEnc ==
    \/ Analyze
    \/ ScriptProcess
    \/ ScriptIgnore
    \/ ScriptRename
    \/ Write
    \/ Crash
    \/ LintDone

SpecEnc == InitEnc /\ [][NextEnc]_vars

\* C13 (script): the document parsed last was flagged for its encoding
\* (valid=false, canRepair=true, tag utf8) if and only if the detector's name
\* is neither ascii nor UTF-8-SIG, and is otherwise left valid, not repairable
\* and with the default tag by the encoding check; a flagged document is
\* returned not valid; and the codec it was decoded with is windows-1251 for
\* MacCyrillic and the detector's name for every other name.
C13_EncodingFlagAndRemap ==
    (impl = "script" /\ Parsed) =>
        LET e == hist.doc.enc
            clean == e \in {"ascii", "UTF-8-SIG"}
        IN  /\ hist.res.at355 =
                  (IF clean
                   THEN [ok |-> TRUE, can_fix |-> FALSE, suffix |-> <<"fixed">>]
                   ELSE [ok |-> FALSE, can_fix |-> TRUE, suffix |-> <<"utf8">>])
            /\ ~clean => ~Valid
            /\ (~clean /\ ~hist.res.aborted) => hist.res.can_fix
            /\ hist.res.encoding = (IF e = "MacCyrillic" THEN "windows-1251" ELSE e)

\* C13 witness: a document the detector calls MacCyrillic has been parsed,
\* flagged and decoded as windows-1251
C13_Witness ==
    /\ impl = "script" /\ Parsed
    /\ hist.doc.enc = "MacCyrillic"
    /\ hist.res.encoding = "windows-1251"
    /\ hist.res.at355.suffix = <<"utf8">>
    /\ ~Valid

-----------------------------------------------------------------------------
(* Properties of the cue checkers: the date and the counters *)

\* what the checker of the run makes of a document, the year inferred being y
Outcome(doc, y) ==
    IF impl = "pkg"
    THEN process_cue(hist.path, CheckerFiles(d), opts.fix, opts.overwrite, doc, y)
    ELSE process_cue_data(hist.path, CheckerFiles(d), opts.fix_cue, doc, y)

\* the checker is through with the document handled last
Handled == Parsed /\ pc \in {"lint", "done", "raised"}

\* the document handled last lacks nothing but its date
OnlyDateMissing ==
    /\ hist.doc.date = ""
    /\ hist.doc.enc \in {"ascii", "UTF-8-SIG"}
    /\ Len(hist.doc.files) = 1
    /\ hist.doc.files[1] \in Range(CheckerFiles(d))

\* C14: a document without a date is not valid and, once handled, has added
\* one to the invalid count, whatever year the directory name gives; its
\* canRepair is what it is for the same document with a date; and a document
\* that lacks nothing but its date is not repairable and leaves the disk as
\* it was.
C14_MissingDateInvalid ==
    (Parsed /\ hist.doc.date = "") =>
        /\ ~Valid
        /\ Handled => linter.nr_invalid = hist.counts.nr_invalid + 1
        /\ \A y \in Years :
              /\ ~Outcome(hist.doc, y).ret
              /\ Outcome(hist.doc, y).can_fix = hist.res.can_fix
              /\ Outcome([hist.doc EXCEPT !.date = "2001"], y).can_fix
                    = hist.res.can_fix
        /\ OnlyDateMissing => (~hist.res.can_fix /\ ~hist.res.write /\ Untouched)

\* C14 witness: in repair mode a document that lacks nothing but its date,
\* in a directory whose name gives a year, was counted invalid and not
\* rewritten
C14_Witness ==
    /\ Parsed /\ OnlyDateMissing /\ FixOn
    /\ hist.res.content.date = "1999"
    /\ pc = "done"
    /\ linter.nr_invalid = 1
    /\ disk = hist.before

\* the number of files the checker has written for the document handled last
Written == Cardinality({i \in 1..Len(hist.ops) : hist.ops[i][1] = "write"})

\* C16: a document that was handled and found not valid has added exactly
\* one to the invalid count, repaired or not; a valid one has changed no
\* counter; the fixed count of the package checker has grown by the number
\* of repaired files written for the document, which is at most one; no
\* parsed document changes the deleted count; and the fixed count never
\* exceeds the invalid count.
C16_InvalidCountedOnce ==
    /\ linter.nr_fixed <= linter.nr_invalid
    /\ Parsed =>
          /\ (Handled /\ ~Valid) => linter.nr_invalid = hist.counts.nr_invalid + 1
          /\ Valid => linter = hist.counts
          /\ linter.nr_invalid <= hist.counts.nr_invalid + 1
          /\ Written <= 1
          /\ impl = "pkg" => linter.nr_fixed = hist.counts.nr_fixed + Written
          /\ impl = "script" => linter.nr_fixed = 0
          /\ linter.nr_deleted = hist.counts.nr_deleted

\* C16 witness: the package checker has written a repaired file and counted
\* the document both invalid and fixed
C16_Witness ==
    /\ impl = "pkg" /\ Parsed /\ ~Valid
    /\ Written = 1
    /\ linter.nr_invalid = 1 /\ linter.nr_fixed = 1
    /\ pc = "done"

-----------------------------------------------------------------------------
(* The walk of the package over directory trees: main, Directory.analyze *)

\* the directories of the tree: r1 and r2 are given on the command line
Dirs == {"r1", "r2", "a", "b", "c"}

\* os.walk, it[1]: the subdirectory names of a directory
Subdirs(n) ==
    CASE n = "r1" -> <<"a", "b">>
      [] n = "a" -> <<"c">>
      [] OTHER -> <<>>

ContentKinds == {"stale", "orphan", "lost"}

\* os.walk, it[2], and the bytes of the files: an index file whose FILE names
\* a sibling with another extension, an index file without audio, an index
\* file whose FILE is gone
Content(k) ==
    CASE k = "stale" ->
           [listing |-> <<XFlac, CueName>>,
            disk |-> [n \in {XFlac, CueName} |->
                        IF n = CueName THEN MkDoc("ascii", <<XMp3>>, "2001")
                        ELSE AudioBytes]]
      [] k = "orphan" ->
           [listing |-> <<CoverJpg, CueName>>,
            disk |-> [n \in {CoverJpg, CueName} |->
                        IF n = CueName THEN MkDoc("ascii", <<XMp3>>, "2001")
                        ELSE AudioBytes]]
      [] OTHER ->
           [listing |-> <<XFlac, CoverJpg, CueName>>,
            disk |-> [n \in {XFlac, CoverJpg, CueName} |->
                        IF n = CueName THEN MkDoc("ascii", <<TrackWav>>, "2001")
                        ELSE AudioBytes]]

\* args.paths
RootLists == {<<"r1">>, <<"r1", "r2">>, <<"r2", "r1">>}

\* State.linters after parse_args: --cue registers CueLinter while the
\* arguments are parsed, --covers registers CoverLinter afterwards
LinterLists ==
    {<<>>, <<"CueLinter">>, <<"CoverLinter">>, <<"CueLinter", "CoverLinter">>}

\* a Directory object before analyze ran
\* (parent is "None" for a root; cached tells whether the cached_property
\* depth holds a value; seen and distance are what log_summary last read)
NewNode ==
    [built |-> FALSE, d |-> NewDirectory, subdirs |-> <<>>,
     children |-> [set |-> FALSE, list |-> <<>>], linters |-> <<>>, done |-> FALSE,
     parent |-> "None", cached |-> FALSE, depth |-> 0, seen |-> FALSE,
     distance |-> 0]

\* the linter objects made so far
Made == UNION {Range(nodes[n].linters) : n \in DOMAIN nodes}

\* the counters of the object of class cls made last, zero when there is none
LastOf(cls, made) ==
    LET mine == {l \in made : l.cls = cls}
    IN  IF mine = {} THEN [NoCounts EXCEPT !.nr_invalid = 0]
        ELSE LET l == CHOOSE x \in mine : \A y \in mine : y.id <= x.id
             IN  [nr_invalid |-> l.nr_invalid, nr_deleted |-> l.nr_deleted,
                  nr_fixed |-> l.nr_fixed]

\* faulty variant of the constructor call: the counters of the object made
\* last for the class are carried into the next directory
CarriedLinter(cls, made) ==
    LET c == LastOf(cls, made)
    IN  [cls |-> cls, id |-> Cardinality(made) + 1,
         nr_invalid |-> c.nr_invalid, nr_deleted |-> c.nr_deleted,
         nr_fixed |-> c.nr_fixed, no_cover |-> FALSE, nr_wrong_name |-> 0]

\* directory.py line 165, linter = cls(): a new object with zero counters
\* (cue.py 33-36, covers.py 22-24)
NewLinter(cls, made) ==
    [cls |-> cls, id |-> Cardinality(made) + 1,
     nr_invalid |-> 0, nr_deleted |-> 0, nr_fixed |-> 0,
     no_cover |-> FALSE, nr_wrong_name |-> 0]

\* CueLinter.lint (cue.py 38-51) on one node, from index file i on: the
\* counters and the files of the directory afterwards
RECURSIVE CueLintFrom(_, _, _, _, _)
CueLintFrom(dir, dk, lt, i, o) ==
    IF i > Len(dir.cue) THEN [linter |-> lt, disk |-> dk]
    ELSE LET name == dir.cue[i]
         IN  IF no_music(dir)
             THEN IF o.delete
                  THEN CueLintFrom(dir, Unlink(dk, name),
                                   [lt EXCEPT !.nr_deleted = @ + 1], i + 1, o)
                  ELSE CueLintFrom(dir, dk, lt, i + 1, o)
             ELSE LET r == process_cue(name, CheckerFiles(dir), o.fix, FALSE,
                                       dk[name], "")
                      inv == IF r.ret THEN lt ELSE [lt EXCEPT !.nr_invalid = @ + 1]
                  IN  IF r.write
                      THEN CueLintFrom(dir, WriteBytes(dk, r.new_name, r.content),
                                       [inv EXCEPT !.nr_fixed = @ + 1], i + 1, o)
                      ELSE CueLintFrom(dir, dk, inv, i + 1, o)

\* linter.lint(self) for a linter of either class
LintNode(l, dir, dk, o) ==
    IF l.cls = "CueLinter" THEN CueLintFrom(dir, dk, l, 1, o)
    ELSE LET c == CoverLint(dir)
         IN  [linter |-> [l EXCEPT !.no_cover = c.no_cover,
                                   !.nr_wrong_name = c.nr_wrong_name],
              disk |-> dk]

\* the state before main runs: a tree, the roots, the options; at most one
\* directory cannot be listed; CueLinter.overwrite is off
InitWalk ==
    \E kinds \in [{"r1", "a", "c"} -> ContentKinds], ps \in RootLists,
       rec \in BOOLEAN, ls \in LinterLists, bad \in Dirs \cup {"none"},
       fix \in BOOLEAN :
        /\ tree = [n \in Dirs |->
                     LET c == Content(IF n \in DOMAIN kinds THEN kinds[n]
                                      ELSE IF n = "b" THEN "lost" ELSE "stale")
                     IN  [subdirs |-> Subdirs(n), readable |-> n # bad,
                          listing |-> c.listing, disk |-> c.disk]]
        /\ paths = ps
        /\ pi = 1
        /\ state = [recursive |-> rec, linters |-> ls]
        /\ nodes = [n \in Dirs |-> NewNode]
        /\ stack = <<>>
        /\ wpc = "main"
        /\ impl = "pkg"
        /\ opts = [impl |-> "pkg", fix |-> fix, overwrite |-> FALSE,
                   delete |-> TRUE, fix_cue |-> "IGNORE"]
        /\ listing = <<>>
        /\ disk = <<>>
        /\ pos = 0
        /\ d = NewDirectory
        /\ pc = "walk"
        /\ linter = NoCounts
        /\ ci = 1
        /\ cue = NoCue
        /\ run = 1
        /\ hist = NoHist
        /\ coverlinter = NewCoverLinter
        /\ processor = NewProcessor
        /\ text = <<>>
        /\ guess = <<>>

\* the directory whose Directory(...) call comes next: the next root in main
\* (__main__.py 67-68) or the next subdirectory in analyze (directory.py 162)
Target ==
    IF stack = <<>>
    THEN IF wpc = "main" /\ pi <= Len(paths) THEN paths[pi] ELSE "none"
    ELSE LET f == stack[Len(stack)]
         IN  IF f.pc = "children" /\ f.k <= Len(nodes[f.dir].subdirs)
             THEN nodes[f.dir].subdirs[f.k]
             ELSE "none"

\* directory.py 153-156: Directory(...) is called and os.walk lists the
\* directory
Enter ==
    /\ Target # "none"
    /\ tree[Target].readable
    /\ nodes' = [nodes EXCEPT ![Target] =
                    [NewNode EXCEPT !.built = TRUE,
                                    !.subdirs = tree[Target].subdirs,
                                    !.parent = IF stack = <<>> THEN "None"
                                               ELSE stack[Len(stack)].dir]]
    /\ stack' = Append(stack, [dir |-> Target, pc |-> "files", k |-> 1])
    /\ wpc' = "build"
    /\ UNCHANGED <<impl, opts, listing, pos, d, disk, pc, linter, ci, cue, run, hist>>
    /\ UNCHANGED <<coverlinter, processor, tree, paths, pi, state, text, guess>>

\* faulty variant of AfterFiles: the linters come before the children
AfterFilesLintFirst(recursive) == "lint"

\* directory.py 161-164: after the loop over the files analyze builds the
\* children when the run is recursive, and goes to the linters otherwise
AfterFiles(recursive) == IF recursive THEN "children" ELSE "lint"

\* directory.py 158-159: the loop over the files of the directory
Classify ==
    /\ stack # <<>>
    /\ LET f == stack[Len(stack)]
       IN  /\ f.pc = "files"
           /\ nodes' = [nodes EXCEPT ![f.dir].d =
                            AnalyzeFrom(NewDirectory, tree[f.dir].listing, 1)]
           /\ stack' = [stack EXCEPT ![Len(stack)] =
                            [f EXCEPT !.pc = AfterFiles(state.recursive)]]
    /\ UNCHANGED <<impl, opts, listing, pos, d, disk, pc, linter, ci, cue, run, hist>>
    /\ UNCHANGED <<coverlinter, processor, tree, paths, pi, state, wpc, text, guess>>

\* directory.py 153: os.walk yields nothing for a directory it cannot list,
\* next() raises StopIteration, and no caller up to main catches it
WalkFails ==
    /\ Target # "none"
    /\ ~tree[Target].readable
    /\ stack' = <<>>
    /\ wpc' = "StopIteration"
    /\ UNCHANGED <<impl, opts, listing, pos, d, disk, pc, linter, ci, cue, run, hist>>
    /\ UNCHANGED <<coverlinter, processor, tree, paths, pi, state, nodes, text, guess>>

\* directory.py 161-162: the list of children is assigned once every child
\* is constructed
ChildrenBuilt ==
    /\ stack # <<>>
    /\ LET f == stack[Len(stack)]
       IN  /\ f.pc = "children"
           /\ f.k > Len(nodes[f.dir].subdirs)
           /\ nodes' = [nodes EXCEPT ![f.dir].children =
                            [set |-> TRUE, list |-> nodes[f.dir].subdirs]]
           /\ stack' = [stack EXCEPT ![Len(stack)] = [f EXCEPT !.pc = "lint", !.k = 1]]
    /\ UNCHANGED <<impl, opts, listing, pos, d, disk, pc, linter, ci, cue, run, hist>>
    /\ UNCHANGED <<coverlinter, processor, tree, paths, pi, state, wpc, text, guess>>

\* directory.py 164-167: one pass of `for cls in State.linters`
Lint ==
    /\ stack # <<>>
    /\ LET f == stack[Len(stack)]
       IN  /\ f.pc = "lint"
           /\ f.k <= Len(state.linters)
           /\ LET r == LintNode(NewLinter(state.linters[f.k], Made), nodes[f.dir].d,
                                tree[f.dir].disk, opts)
              IN  /\ nodes' = [nodes EXCEPT ![f.dir].linters = Append(@, r.linter)]
                  /\ tree' = [tree EXCEPT ![f.dir].disk = r.disk]
           /\ stack' = [stack EXCEPT ![Len(stack)] = [f EXCEPT !.k = @ + 1]]
    /\ UNCHANGED <<impl, opts, listing, pos, d, disk, pc, linter, ci, cue, run, hist>>
    /\ UNCHANGED <<coverlinter, processor, paths, pi, state, wpc, text, guess>>

\* directory.py 164: the loop over State.linters ends, analyze and the
\* constructor return to the parent's list comprehension or to main
Return ==
    /\ stack # <<>>
    /\ LET f == stack[Len(stack)]
           n == Len(stack)
       IN  /\ f.pc = "lint"
           /\ f.k > Len(state.linters)
           /\ nodes' = [nodes EXCEPT ![f.dir].done = TRUE]
           /\ stack' = IF n = 1 THEN <<>>
                       ELSE [SubSeq(stack, 1, n - 1) EXCEPT ![n - 1].k = @ + 1]
           /\ wpc' = IF n = 1 THEN "log" ELSE wpc
    /\ UNCHANGED <<impl, opts, listing, pos, d, disk, pc, linter, ci, cue, run, hist>>
    /\ UNCHANGED <<coverlinter, processor, tree, paths, pi, state, text, guess>>

\* the largest member of a non-empty set of numbers
Max(S) == CHOOSE x \in S : \A y \in S : y <= x

\* faulty variant of depth: only the last child is looked at
RECURSIVE DepthLastChild(_)
DepthLastChild(n) ==
    IF nodes[n].cached THEN nodes[n].depth
    ELSE IF nodes[n].children.list = <<>> THEN 0
    ELSE 1 + DepthLastChild(nodes[n].children.list[Len(nodes[n].children.list)])

\* directory.py 129-135: Directory.depth, a cached_property; children that
\* are None or an empty list give 0
RECURSIVE depth(_)
depth(n) ==
    IF nodes[n].cached THEN nodes[n].depth
    ELSE IF nodes[n].children.list = <<>> THEN 0
    ELSE 1 + Max({depth(nodes[n].children.list[i]) :
                     i \in DOMAIN nodes[n].children.list})

\* directory.py 137-143: Directory.distance
RECURSIVE distance(_)
distance(n) ==
    IF nodes[n].parent = "None" THEN 0 ELSE 1 + distance(nodes[n].parent)

\* the nodes log(d) reaches from node n: n and, through the children lists,
\* its descendants
RECURSIVE Logged(_)
Logged(n) ==
    {n} \cup UNION {Logged(nodes[n].children.list[i]) :
                       i \in DOMAIN nodes[n].children.list}

\* __main__.py 54-57 and 69: log(d) calls log_summary, whose summary reads
\* depth and distance of the node (directory.py 193-205), then iterates
\* d.children; depth caches its value in the node and in every descendant it
\* asks; children is None when the run is not recursive, and the TypeError
\* is not caught
Log ==
    /\ wpc = "log"
    /\ LET root == paths[pi]
       IN  nodes' = [n \in Dirs |->
                        IF n \in Logged(root)
                        THEN [nodes[n] EXCEPT !.cached = TRUE, !.depth = depth(n),
                                              !.seen = TRUE,
                                              !.distance = distance(n)]
                        ELSE nodes[n]]
    /\ IF nodes[paths[pi]].children.set
       THEN wpc' = "main" /\ pi' = pi + 1
       ELSE wpc' = "TypeError" /\ pi' = pi
    /\ UNCHANGED <<impl, opts, listing, pos, d, disk, pc, linter, ci, cue, run, hist>>
    /\ UNCHANGED <<coverlinter, processor, tree, paths, state, stack, text, guess>>

\* __main__.py 67: the loop over args.paths ends
Exit ==
    /\ wpc = "main"
    /\ pi > Len(paths)
    /\ wpc' = "exit"
    /\ UNCHANGED <<impl, opts, listing, pos, d, disk, pc, linter, ci, cue, run, hist>>
    /\ UNCHANGED <<coverlinter, processor, tree, paths, pi, state, nodes, stack, text, guess>>

NextWalk == Enter \/ WalkFails \/ Classify \/ ChildrenBuilt \/ Lint \/ Return \/ Log \/ Exit

SpecWalk == InitWalk /\ [][NextWalk]_vars

-----------------------------------------------------------------------------
(* Properties of the walk *)

\* the CueLinter objects kept in the linters list of node n
CueLintersOf(n) ==
    {nodes[n].linters[i] : i \in {j \in DOMAIN nodes[n].linters :
                                     nodes[n].linters[j].cls = "CueLinter"}}

\* the directories a CueLinter has linted
CueLinted == {n \in Dirs : CueLintersOf(n) # {}}

\* what the index file of directory n is, read from the files on disk
KindOf(n) ==
    IF XFlac \notin DOMAIN tree[n].disk THEN "orphan"
    ELSE IF tree[n].disk[CueName].files = <<XMp3>> THEN "stale"
    ELSE "lost"

\* the increments directory n is due: an orphan is deleted, a stale index
\* file is invalid and repaired when fix is on, a lost one is invalid only
Due(n) ==
    CASE KindOf(n) = "orphan" -> [nr_invalid |-> 0, nr_deleted |-> 1, nr_fixed |-> 0]
      [] KindOf(n) = "stale" ->
           [nr_invalid |-> 1, nr_deleted |-> 0, nr_fixed |-> IF opts.fix THEN 1 ELSE 0]
      [] OTHER -> [nr_invalid |-> 1, nr_deleted |-> 0, nr_fixed |-> 0]

Counters(l) ==
    [nr_invalid |-> l.nr_invalid, nr_deleted |-> l.nr_deleted, nr_fixed |-> l.nr_fixed]

RECURSIVE DueTotal(_, _)
DueTotal(S, fld) ==
    IF S = {} THEN 0
    ELSE LET n == CHOOSE x \in S : TRUE
         IN  Due(n)[fld] + DueTotal(S \ {n}, fld)

RECURSIVE Below(_)
Below(n) == {n} \cup UNION {Below(Subdirs(n)[i]) : i \in DOMAIN Subdirs(n)}

InScope ==
    IF state.recursive THEN UNION {Below(paths[i]) : i \in DOMAIN paths}
    ELSE Range(paths)

\* the directories at or below a directory that cannot be listed
Skipped == UNION {Below(n) : n \in {m \in Dirs : ~tree[m].readable}}

\* the node is built and every enabled linter has linted it
Checked(n) ==
    nodes[n].built /\ nodes[n].done /\ Len(nodes[n].linters) = Len(state.linters)

\* C19 as stated: a directory that cannot be listed does not end the run with
\* an uncaught error, and the finished run has built and checked every
\* directory of the roots outside the failed subtree
C19_FailureIsolated ==
    /\ wpc # "StopIteration"
    /\ wpc = "exit" => \A n \in InScope \ Skipped : Checked(n)

\* a linter has linted node n, or the next step of the run lints it
LintRuns(n) ==
    \/ nodes[n].linters # <<>>
    \/ /\ stack # <<>>
       /\ stack[Len(stack)].dir = n
       /\ stack[Len(stack)].pc = "lint"
       /\ stack[Len(stack)].k <= Len(state.linters)

\* C20: whenever a linter lints a node, all files of the node are classified
\* and, in recursive mode, every child is built and has been linted by every
\* enabled linter; the node's linters list holds one result per enabled
\* linter, made one after another in registration order
C20_LintAfterBuild ==
    \A n \in Dirs :
        /\ LintRuns(n) =>
              /\ Accounted(nodes[n].d) = Len(tree[n].listing)
              /\ state.recursive =>
                    /\ nodes[n].children.set
                    /\ nodes[n].children.list = Subdirs(n)
                    /\ \A c \in Range(Subdirs(n)) : Checked(c)
        /\ Len(nodes[n].linters) <= Len(state.linters)
        /\ \A i \in DOMAIN nodes[n].linters :
              /\ nodes[n].linters[i].cls = state.linters[i]
              /\ i > 1 => nodes[n].linters[i].id = nodes[n].linters[i - 1].id + 1
        /\ nodes[n].done => Len(nodes[n].linters) = Len(state.linters)

\* a recursive run with both linters has linted r1 after its children a and
\* b, and a after its child c
C20_Witness ==
    /\ state.recursive
    /\ state.linters = <<"CueLinter", "CoverLinter">>
    /\ Checked("r1") /\ Checked("a") /\ Checked("b") /\ Checked("c")
    /\ nodes["r1"].linters[1].cls = "CueLinter"
    /\ nodes["r1"].linters[2].cls = "CoverLinter"
    /\ nodes["c"].linters[2].id < nodes["a"].linters[1].id
    /\ nodes["b"].linters[2].id < nodes["r1"].linters[1].id

-----------------------------------------------------------------------------
(* Year inference: dates.py of the package, string_to_years and guess_year
   of the script.  A text is a sequence of characters; "sup2" stands for the
   superscript two, a character str.isdigit accepts and int() rejects. *)

MaxPieces == 3

min_year == 1960
\* datetime.now().year + 1, for a run in 2026
max_year == 2027

Decimals == {"0", "1", "2", "5", "6", "7", "8", "9"}

\* str.isdigit
isdigit(c) == c \in Decimals \cup {"sup2"}

\* the value of a decimal digit
DigitValue(c) ==
    CASE c = "0" -> 0 [] c = "1" -> 1 [] c = "2" -> 2 [] c = "5" -> 5
      [] c = "6" -> 6 [] c = "7" -> 7 [] c = "8" -> 8 [] OTHER -> 9

\* int(y) for a string of decimal digits
RECURSIVE IntOf(_)
IntOf(y) ==
    IF y = <<>> THEN 0
    ELSE 10 * IntOf(SubSeq(y, 1, Len(y) - 1)) + DigitValue(y[Len(y)])

\* int(y) raises ValueError when a character is no decimal digit
IntRaises(y) == \E i \in DOMAIN y : y[i] \notin Decimals

\* dates.py 8-16: the runs yielded from position i on, begin being the start
\* of the run in progress
RECURSIVE DigitSubstrFrom(_, _, _)
DigitSubstrFrom(str, begin, i) ==
    IF i > Len(str)
    THEN IF begin <= Len(str) THEN <<SubSeq(str, begin, Len(str))>> ELSE <<>>
    ELSE IF ~isdigit(str[i])
         THEN (IF begin < i THEN <<SubSeq(str, begin, i - 1)>> ELSE <<>>)
                  \o DigitSubstrFrom(str, i + 1, i + 1)
         ELSE DigitSubstrFrom(str, begin, i + 1)

digit_substr(str) == DigitSubstrFrom(str, 1, 1)

\* dates.py 19-20
is_year(y) == y >= min_year /\ y <= max_year

\* filter over a sequence, keeping the order
RECURSIVE FilterLen4(_)
FilterLen4(runs) ==
    IF runs = <<>> THEN <<>>
    ELSE (IF Len(Head(runs)) = 4 THEN <<Head(runs)>> ELSE <<>>)
             \o FilterLen4(Tail(runs))

RECURSIVE FilterYears(_)
FilterYears(numbers) ==
    IF numbers = <<>> THEN <<>>
    ELSE (IF is_year(IntOf(Head(numbers))) THEN <<IntOf(Head(numbers))>> ELSE <<>>)
             \o FilterYears(Tail(numbers))

None == [kind |-> "None", year |-> 0]
ValueError == [kind |-> "ValueError", year |-> 0]
Year(y) == [kind |-> "year", year |-> y]

\* dates.py 23-32: string_to_years and guess_year
guess_year(name) ==
    LET runs == FilterLen4(digit_substr(name))
        years == FilterYears(runs)
    IN  IF \E i \in DOMAIN runs : IntRaises(runs[i]) THEN ValueError
        ELSE IF Len(years) = 1 THEN Year(years[1]) ELSE None

\* os.path.basename: what follows the last slash
basename(path) ==
    LET slashes == {i \in DOMAIN path : path[i] = "/"}
    IN  IF slashes = {} THEN path
        ELSE SubSeq(path, (CHOOSE i \in slashes : \A j \in slashes : j <= i) + 1,
                    Len(path))

\* musiclinter.py 89-91: re.findall of \d\d\d\d, the matches from position i
\* on, one after the end of the other
RECURSIVE FindAllFrom(_, _)
FindAllFrom(str, i) ==
    IF i + 3 > Len(str) THEN <<>>
    ELSE IF \A j \in i..(i + 3) : str[j] \in Decimals
         THEN <<SubSeq(str, i, i + 3)>> \o FindAllFrom(str, i + 4)
         ELSE FindAllFrom(str, i + 1)

\* musiclinter.py 87-101: string_to_years and guess_year of the script
ScriptGuessYear(path) ==
    LET years == FilterYears(FindAllFrom(basename(path), 1))
    IN  IF Len(years) = 1 THEN Year(years[1]) ELSE None

\* parts of directory names: years inside, at and outside the limits, single
\* digits, a letter, the superscript two
Pieces ==
    {<<"1", "9", "9", "9">>, <<"2", "0", "0", "1">>, <<"1", "9", "6", "0">>,
     <<"1", "9", "5", "9">>, <<"2", "0", "2", "7">>, <<"2", "0", "2", "8">>,
     <<"1", "9">>, <<"9">>, <<"a">>, <<"-">>, <<"sup2">>}

\* the path of the directory named name
PathOf(name) == <<"m", "/">> \o name

RECURSIVE TextsOf(_)
TextsOf(n) ==
    IF n = 0 THEN {<<>>}
    ELSE TextsOf(n - 1) \cup {t \o q : t \in TextsOf(n - 1), q \in Pieces}

Unset == [kind |-> "unset", year |-> 0]

NoGuess == [pkg |-> Unset, again |-> Unset, script |-> Unset]

InitYears ==
    /\ text \in TextsOf(MaxPieces)
    /\ guess = NoGuess
    /\ impl = "pkg"
    /\ opts = [impl |-> "pkg", fix |-> FALSE, overwrite |-> FALSE,
               delete |-> FALSE, fix_cue |-> "IGNORE"]
    /\ listing = <<>>
    /\ disk = <<>>
    /\ pos = 0
    /\ d = NewDirectory
    /\ pc = "years"
    /\ linter = NoCounts
    /\ ci = 1
    /\ cue = NoCue
    /\ run = 1
    /\ hist = NoHist
    /\ coverlinter = NewCoverLinter
    /\ processor = NewProcessor
    /\ tree = <<>>
    /\ paths = <<>>
    /\ pi = 1
    /\ state = [recursive |-> FALSE, linters |-> <<>>]
    /\ nodes = <<>>
    /\ stack = <<>>
    /\ wpc = "idle"

\* dates.py 29-32: guess_year(name) of the package is called
PkgGuess ==
    /\ pc = "years"
    /\ guess.pkg = Unset
    /\ guess' = [guess EXCEPT !.pkg = guess_year(text)]
    /\ UNCHANGED <<impl, opts, listing, pos, d, disk, pc, linter, ci, cue, run, hist>>
    /\ UNCHANGED <<coverlinter, processor, tree, paths, pi, state, nodes, stack, wpc, text>>

\* guess_year(name) of the package is called a second time
PkgGuessAgain ==
    /\ pc = "years"
    /\ guess.pkg # Unset /\ guess.again = Unset
    /\ guess' = [guess EXCEPT !.again = guess_year(text)]
    /\ UNCHANGED <<impl, opts, listing, pos, d, disk, pc, linter, ci, cue, run, hist>>
    /\ UNCHANGED <<coverlinter, processor, tree, paths, pi, state, nodes, stack, wpc, text>>

\* musiclinter.py 96-101: guess_year(path) of the script is called for the
\* directory named text
ScriptGuess ==
    /\ pc = "years"
    /\ guess.script = Unset
    /\ guess' = [guess EXCEPT !.script = ScriptGuessYear(PathOf(text))]
    /\ UNCHANGED <<impl, opts, listing, pos, d, disk, pc, linter, ci, cue, run, hist>>
    /\ UNCHANGED <<coverlinter, processor, tree, paths, pi, state, nodes, stack, wpc, text>>

NextYears == PkgGuess \/ PkgGuessAgain \/ ScriptGuess

SpecYears == InitYears /\ [][NextYears]_vars

\* the maximal runs of decimal digits of length 4 in str, as pairs of the
\* first and last position, whose value is within the limits
QualifyingRuns(str) ==
    {r \in (DOMAIN str) \X (DOMAIN str) :
        /\ r[2] = r[1] + 3
        /\ \A i \in r[1]..r[2] : str[i] \in Decimals
        /\ r[1] = 1 \/ str[r[1] - 1] \notin Decimals
        /\ r[2] = Len(str) \/ str[r[2] + 1] \notin Decimals
        /\ IntOf(SubSeq(str, r[1], r[2])) >= 1960
        /\ IntOf(SubSeq(str, r[1], r[2])) <= max_year}

\* inferYear as section 4.2 words it
InferYear(str) ==
    IF Cardinality(QualifyingRuns(str)) = 1
    THEN LET r == CHOOSE x \in QualifyingRuns(str) : TRUE
         IN  Year(IntOf(SubSeq(str, r[1], r[2])))
    ELSE None

\* C17: for a text of ASCII characters, the package's guess_year and the
\* script's guess_year both return the year of the only maximal run of four
\* digits within [1960, current year + 1], and nothing when there is no
\* such run or more than one
C17_BothGuessTheSpecYear ==
    ("sup2" \notin Range(text)) =>
        /\ guess.pkg # Unset => guess.pkg = InferYear(text)
        /\ guess.script # Unset => guess.script = InferYear(text)

\* C18: guess_year of the package returns a year or nothing for every text,
\* never raises, and returns the same on a second call
C18_TotalAndPure ==
    /\ guess.pkg # Unset => guess.pkg.kind \in {"year", "None"}
    /\ guess.again # Unset => guess.again = guess.pkg

-----------------------------------------------------------------------------
(* Depth and distance of the nodes of a built tree *)

\* the directory that holds n in the tree on disk, "None" for r1 and r2
HolderOf(n) ==
    IF \E m \in Dirs : n \in Range(Subdirs(m))
    THEN CHOOSE m \in Dirs : n \in Range(Subdirs(m))
    ELSE "None"

\* the number of ancestors of directory n
RECURSIVE NumAncestors(_)
NumAncestors(n) == IF HolderOf(n) = "None" THEN 0 ELSE 1 + NumAncestors(HolderOf(n))

\* the root directory n lies under
RECURSIVE RootOf(_)
RootOf(n) == IF HolderOf(n) = "None" THEN n ELSE RootOf(HolderOf(n))

\* the height of the subtree of nodes built for n: nothing below a node of a
\* run that is not recursive
RECURSIVE Height(_)
Height(n) ==
    IF ~state.recursive \/ Subdirs(n) = <<>> THEN 0
    ELSE 1 + Max({Height(Subdirs(n)[i]) : i \in DOMAIN Subdirs(n)})

\* the tree of the root above n is built: the root's constructor returned
TreeBuilt(n) == nodes[n].built /\ nodes[RootOf(n)].done

\* C21: for every node of a built tree, at any time after the build,
\* distance is the number of ancestors and depth the height of the subtree
\* (0 in a run that is not recursive); a cached depth was computed after the
\* children were fixed; distance + depth is at most the root's depth
C21_DepthAndDistance ==
    \A n \in Dirs :
        /\ TreeBuilt(n) =>
              /\ distance(n) = NumAncestors(n)
              /\ depth(n) = Height(n)
              /\ distance(n) + depth(n) <= depth(RootOf(n))
        /\ nodes[n].cached =>
              /\ nodes[n].depth = Height(n)
              /\ nodes[n].done
              /\ state.recursive =>
                    /\ nodes[n].children.set
                    /\ \A c \in Range(Subdirs(n)) : nodes[c].done
        /\ nodes[n].seen =>
              /\ nodes[n].distance = NumAncestors(n)
              /\ nodes[n].distance + nodes[n].depth <= nodes[RootOf(n)].depth

\* a recursive run is over: r1 was logged with depth 2, a with depth 1 and
\* distance 1, c with depth 0 and distance 2
C21_Witness ==
    /\ wpc = "exit"
    /\ state.recursive
    /\ nodes["r1"].cached /\ nodes["r1"].depth = 2 /\ nodes["r1"].distance = 0
    /\ nodes["a"].seen /\ nodes["a"].depth = 1 /\ nodes["a"].distance = 1
    /\ nodes["c"].seen /\ nodes["c"].depth = 0 /\ nodes["c"].distance = 2

=============================================================================
